---- MODULE Spec2Model ----
(***************************************************************************)
(* Property list of the PropertyMapGenerator component and its bulk-input  *)
(* parser, in the three record-based variants of the repository:           *)
(*   "mapbox2"   src/app.js 1-752       (primary / comparable, Mapbox)     *)
(*   "mapbox3"   src/app.js 757-1730    (primary / comparable / hospital)  *)
(*   "nominatim" src/unnamed/part_000   (primary / comparable, Nominatim)  *)
(*                                                                         *)
(* A JavaScript string is a sequence of tokens.  A token is one character  *)
(* (" ", "\t", "\n", "a"), the no-break space U+00A0 written "NBSP", a     *)
(* decimal numeral ("3", "12") or a whole word ("Hospital", "Comparable")  *)
(* standing for its letters; words never overlap partially, so substring   *)
(* tests on tokens agree with substring tests on characters.  The empty    *)
(* string is <<>>.                                                         *)
(*                                                                         *)
(* The legends, the "#" column of the table and one run of updateMarkers   *)
(* are functions of the list; a run is one step, with what each lookup     *)
(* returns chosen freely.                                                  *)
(*                                                                         *)
(* SpecAsync follows the runs of the Nominatim component step by step      *)
(* (effect, debounce timer, one step per lookup), SpecPanel adds the token *)
(* input and the export of the map, and SpecEarly is the earliest          *)
(* component, "earliest" src/app.js 1734-2179, whose state is              *)
(* primaryAddress and compAddresses.                                       *)
(***************************************************************************)
EXTENDS Integers, Sequences, FiniteSets, TLC

(* ---------------------------- bounds ---------------------------------- *)

\* longest bulk text (in tokens) the parser specifications start from
MaxTextLen == 5
\* largest reading of Date.now() (milliseconds since the page was loaded)
MaxClock == 1
\* number of user operations in one run of the property-list specification
MaxOps == 2
\* the inputs of the first MaxEditRow rows are the ones typed into
MaxEditRow == 2
\* last line of a bulk text before which the clock may tick during a parse
MaxTickLine == 3
\* the lookup of one run of updateMarkers that may fail is one of the first
\* MaxFailLookup
MaxFailLookup == 2
\* number of user operations in one run of the row specification
MaxListOps == 4
\* longest second line (in tokens) the classification specification parses
MaxLineLen == 4
\* number of user operations in one run of the earliest component
MaxEarlyOps == 3
\* number of map containers mounted in one run of the panel specification
MaxMounts == 2

(* ----------------------- program constants ---------------------------- *)

MaxComparables == 12
MaxHospitals == 5

Variants == {"mapbox2", "mapbox3", "nominatim"}

ThreeCategory(v) == v = "mapbox3"

(* ------------------------- string functions --------------------------- *)

\* the characters String.prototype.trim strips and the class \s matches
WhiteSpace == {" ", "\t", "\n", "NBSP"}

RECURSIVE TrimStart(_)
TrimStart(s) ==
  IF s # <<>> /\ Head(s) \in WhiteSpace THEN TrimStart(Tail(s)) ELSE s

RECURSIVE TrimEnd(_)
TrimEnd(s) ==
  IF s # <<>> /\ s[Len(s)] \in WhiteSpace
  THEN TrimEnd(SubSeq(s, 1, Len(s) - 1))
  ELSE s

Trim(s) == TrimEnd(TrimStart(s))

\* text.split('\n'), the segment being collected in cur
RECURSIVE SplitNewline(_, _)
SplitNewline(s, cur) ==
  IF s = <<>> THEN <<cur>>
  ELSE IF Head(s) = "\n" THEN <<cur>> \o SplitNewline(Tail(s), <<>>)
  ELSE SplitNewline(Tail(s), Append(cur, Head(s)))

\* length of the run of whitespace s starts with
RECURSIVE WsRun(_)
WsRun(s) ==
  IF s # <<>> /\ Head(s) \in WhiteSpace THEN 1 + WsRun(Tail(s)) ELSE 0

\* line.split(/\t|(?:\s{2,})/): at each position the alternative \t is
\* tried first, then the greedy run of two or more whitespace characters
RECURSIVE SplitDelimiter(_, _)
SplitDelimiter(s, cur) ==
  IF s = <<>> THEN <<cur>>
  ELSE IF Head(s) = "\t" THEN <<cur>> \o SplitDelimiter(Tail(s), <<>>)
  ELSE IF WsRun(s) >= 2
       THEN <<cur>> \o SplitDelimiter(SubSeq(s, WsRun(s) + 1, Len(s)), <<>>)
  ELSE SplitDelimiter(Tail(s), Append(cur, Head(s)))

\* parts.join('')
RECURSIVE JoinSpace_NoSeparator(_)
JoinSpace_NoSeparator(parts) ==
  IF parts = <<>> THEN <<>>
  ELSE parts[1] \o JoinSpace_NoSeparator(Tail(parts))

\* parts.join(' ')
RECURSIVE JoinSpace(_)
JoinSpace(parts) ==
  IF parts = <<>> THEN <<>>
  ELSE IF Len(parts) = 1 THEN parts[1]
  ELSE parts[1] \o <<" ">> \o JoinSpace(Tail(parts))

\* String.prototype.toLowerCase on the tokens that have upper-case letters
ToLowerCase(s) ==
  [i \in 1..Len(s) |->
     CASE s[i] = "Hospital" -> "hospital"
       [] s[i] = "Medical" -> "medical"
       [] s[i] = "Comparable" -> "comparable"
       [] s[i] = "Primary" -> "primary"
       [] s[i] = "Property" -> "property"
       [] OTHER -> s[i]]

\* String.prototype.includes
Includes(s, pat) ==
  \E i \in 0..(Len(s) - Len(pat)) : SubSeq(s, i + 1, i + Len(pat)) = pat

\* `${n}` for a non-negative integer n
Numeral(n) == ToString(n)

(* ------------------------- property records --------------------------- *)

\* an object literal of the variant: the three-category variant carries
\* the valuation fields, initialised to the empty string
PropertyRecord(v, id, name, address, type) ==
  IF ThreeCategory(v)
  THEN [id |-> id, name |-> name, address |-> address, type |-> type,
        gla |-> <<>>, occupancy |-> <<>>, rate |-> <<>>]
  ELSE [id |-> id, name |-> name, address |-> address, type |-> type]

\* React.useState([...]) of properties
InitialProperties(v) ==
  <<PropertyRecord(v, <<"primary">>,
                   <<"Primary", " ", "Property">>, <<>>, "primary")>>

\* properties.filter(p => p.type === type).length
CountType(props, type) ==
  Cardinality({i \in 1..Len(props) : props[i].type = type})

(* ------------------ handlers of the property list --------------------- *)

\* handleAddProperty with the caps tested by > instead of >=
AddProperty3_OffByOne(props, type, t) ==
  LET compCount == CountType(props, "comparable")
      hospitalCount == CountType(props, "hospital")
      newType == IF type = "hospital" THEN "hospital" ELSE "comparable"
      newName == IF type = "hospital"
                 THEN <<"Hospital", " ", Numeral(hospitalCount + 1)>>
                 ELSE <<"Comparable", " ", Numeral(compCount + 1)>>
  IN IF \/ newType = "comparable" /\ compCount > MaxComparables
        \/ newType = "hospital" /\ hospitalCount > MaxHospitals
     THEN props
     ELSE Append(props,
                 PropertyRecord("mapbox3", <<newType, t>>, newName, <<>>,
                                newType))

\* handleAddProperty of the three-category variant, Date.now() reading t
AddProperty3(props, type, t) ==
  LET compCount == CountType(props, "comparable")
      hospitalCount == CountType(props, "hospital")
      newType == IF type = "hospital" THEN "hospital" ELSE "comparable"
      newName == IF type = "hospital"
                 THEN <<"Hospital", " ", Numeral(hospitalCount + 1)>>
                 ELSE <<"Comparable", " ", Numeral(compCount + 1)>>
  IN IF \/ newType = "comparable" /\ compCount >= MaxComparables
        \/ newType = "hospital" /\ hospitalCount >= MaxHospitals
     THEN props
     ELSE Append(props,
                 PropertyRecord("mapbox3", <<newType, t>>, newName, <<>>,
                                newType))

\* handleAddProperty of the two-category variants, Date.now() reading t
AddProperty2(v, props, t) ==
  LET compCount == CountType(props, "comparable")
  IN IF compCount < MaxComparables
     THEN Append(props,
                 PropertyRecord(v, <<"comp", t>>,
                                <<"Comparable", " ", Numeral(compCount + 1)>>,
                                <<>>, "comparable"))
     ELSE props

\* handleRemoveProperty
RemoveProperty(props, id) == SelectSeq(props, LAMBDA p : p.id # id)

\* handlePropertyChange
PropertyChange(props, id, field, value) ==
  [i \in 1..Len(props) |->
     IF props[i].id = id THEN [props[i] EXCEPT ![field] = value]
     ELSE props[i]]

\* handlePropertyTypeChange (three-category variant only)
PropertyTypeChange(props, id, newType) ==
  [i \in 1..Len(props) |->
     IF props[i].id = id THEN [props[i] EXCEPT !.type = newType]
     ELSE props[i]]

(* --------------------------- bulk parser ------------------------------ *)

\* text.split('\n').filter(line => line.length > 0)
NonBlankLines_NoTrim(text) ==
  SelectSeq(SplitNewline(text, <<>>), LAMBDA line : Len(line) > 0)

\* text.split('\n').filter(line => line.trim().length > 0)
NonBlankLines(text) ==
  SelectSeq(SplitNewline(text, <<>>), LAMBDA line : Len(Trim(line)) > 0)

\* the keyword test without toLowerCase()
IsHospitalName_CaseSensitive(part) ==
  /\ part # <<>>
  /\ \/ Includes(part, <<"hospital">>)
     \/ Includes(part, <<"medical", " ", "center">>)
     \/ Includes(part, <<"healthcare">>)

\* the keyword test on parts[0] of the three-category variant
IsHospitalName(part) ==
  /\ part # <<>>
  /\ \/ Includes(ToLowerCase(part), <<"hospital">>)
     \/ Includes(ToLowerCase(part), <<"medical", " ", "center">>)
     \/ Includes(ToLowerCase(part), <<"healthcare">>)

\* the three-category parser with the keyword test applied to the first
\* line as well
ParseLine3_KeywordFirst(line, index, t) ==
  LET parts == SplitDelimiter(line, <<>>)
      type == IF IsHospitalName(parts[1]) THEN "hospital"
              ELSE IF index = 0 THEN "primary"
              ELSE "comparable"
      name == IF Len(parts) >= 2 THEN Trim(parts[1])
              ELSE IF index = 0 THEN <<"Primary", " ", "Property">>
              ELSE IF type = "hospital"
                   THEN <<"Hospital", " ", Numeral(index)>>
              ELSE <<"Comparable", " ", Numeral(index)>>
      address == IF Len(parts) >= 2 THEN Trim(JoinSpace(Tail(parts)))
                 ELSE Trim(line)
      id == IF type = "primary" THEN <<"primary">> ELSE <<type, t, index>>
  IN PropertyRecord("mapbox3", id, name, address, type)

\* the three-category parser with default names numbered by the clock
ParseLine3_StampedName(line, index, t) ==
  LET parts == SplitDelimiter(line, <<>>)
      type == IF index = 0 THEN "primary"
              ELSE IF IsHospitalName(parts[1]) THEN "hospital"
              ELSE "comparable"
      name == IF Len(parts) >= 2 THEN Trim(parts[1])
              ELSE IF index = 0 THEN <<"Primary", " ", "Property">>
              ELSE IF type = "hospital"
                   THEN <<"Hospital", " ", Numeral(t)>>
              ELSE <<"Comparable", " ", Numeral(t)>>
      address == IF Len(parts) >= 2 THEN Trim(JoinSpace(Tail(parts)))
                 ELSE Trim(line)
      id == IF type = "primary" THEN <<"primary">> ELSE <<type, t, index>>
  IN PropertyRecord("mapbox3", id, name, address, type)

\* the record the three-category parser builds from the line at 0-based
\* position index, Date.now() reading t
ParseLine3(line, index, t) ==
  LET parts == SplitDelimiter(line, <<>>)
      type == IF index = 0 THEN "primary"
              ELSE IF IsHospitalName(parts[1]) THEN "hospital"
              ELSE "comparable"
      name == IF Len(parts) >= 2 THEN Trim(parts[1])
              ELSE IF index = 0 THEN <<"Primary", " ", "Property">>
              ELSE IF type = "hospital"
                   THEN <<"Hospital", " ", Numeral(index)>>
              ELSE <<"Comparable", " ", Numeral(index)>>
      address == IF Len(parts) >= 2 THEN Trim(JoinSpace(Tail(parts)))
                 ELSE Trim(line)
      id == IF type = "primary" THEN <<"primary">> ELSE <<type, t, index>>
  IN PropertyRecord("mapbox3", id, name, address, type)

\* the two-category parser with 1-based default names
ParseLine2_OneBased(v, line, index, t) ==
  LET parts == SplitDelimiter(line, <<>>)
      name == IF Len(parts) >= 2 THEN Trim(parts[1])
              ELSE IF index = 0 THEN <<"Primary", " ", "Property">>
              ELSE <<"Comparable", " ", Numeral(index + 1)>>
      address == IF Len(parts) >= 2 THEN Trim(JoinSpace(Tail(parts)))
                 ELSE Trim(line)
      type == IF index = 0 THEN "primary" ELSE "comparable"
      id == IF type = "primary" THEN <<"primary">> ELSE <<"comp", t, index>>
  IN PropertyRecord(v, id, name, address, type)

\* the record the two-category parsers build
ParseLine2(v, line, index, t) ==
  LET parts == SplitDelimiter(line, <<>>)
      name == IF Len(parts) >= 2 THEN Trim(parts[1])
              ELSE IF index = 0 THEN <<"Primary", " ", "Property">>
              ELSE <<"Comparable", " ", Numeral(index)>>
      address == IF Len(parts) >= 2 THEN Trim(JoinSpace(Tail(parts)))
                 ELSE Trim(line)
      type == IF index = 0 THEN "primary" ELSE "comparable"
      id == IF type = "primary" THEN <<"primary">> ELSE <<"comp", t, index>>
  IN PropertyRecord(v, id, name, address, type)

\* handleBulkAddressInput appending to the list instead of replacing it
BulkAddressInput_Appends(v, props, text, readings) ==
  LET lines == NonBlankLines(text)
  IN IF Len(lines) = 0 THEN props
     ELSE props \o
          [i \in 1..Len(lines) |->
             IF ThreeCategory(v)
             THEN ParseLine3(lines[i], i - 1, readings[i])
             ELSE ParseLine2(v, lines[i], i - 1, readings[i])]

\* handleBulkAddressInput resetting the list when no line is left
BulkAddressInput_ClearsOnEmpty(v, props, text, readings) ==
  LET lines == NonBlankLines(text)
  IN IF Len(lines) = 0 THEN InitialProperties(v)
     ELSE [i \in 1..Len(lines) |->
             IF ThreeCategory(v)
             THEN ParseLine3(lines[i], i - 1, readings[i])
             ELSE ParseLine2(v, lines[i], i - 1, readings[i])]

\* handleBulkAddressInput: the new value of properties; readings[i] is what
\* Date.now() returns while the i-th non-blank line is processed
BulkAddressInput(v, props, text, readings) ==
  LET lines == NonBlankLines(text)
  IN IF Len(lines) = 0 THEN props
     ELSE [i \in 1..Len(lines) |->
             IF ThreeCategory(v)
             THEN ParseLine3(lines[i], i - 1, readings[i])
             ELSE ParseLine2(v, lines[i], i - 1, readings[i])]

(* ------------------- legends, table and markers ----------------------- *)

\* the rows of the records props.filter(Keep) retains, in list order
Rows(props, Keep(_)) ==
  SelectSeq([i \in 1..Len(props) |-> i], LAMBDA i : Keep(props[i]))

\* the entries of one legend section, all with the same letter
Lettered(rows, letter) ==
  [k \in 1..Len(rows) |-> [row |-> rows[k], text |-> letter]]

\* rows.map((property, i) => ... {i + 1} ...)
NumberedByIndex(rows) ==
  [k \in 1..Len(rows) |-> [row |-> rows[k], text |-> Numeral(k)]]

\* numbered by the place of the record among the rows below the primary
\* one, hospital rows included
RECURSIVE NumberedByCounter_SharedCounter(_, _)
NumberedByCounter_SharedCounter(rows, compCount) ==
  IF rows = <<>> THEN <<>>
  ELSE <<[row |-> rows[1], text |-> Numeral(rows[1] - 1)]>>
       \o NumberedByCounter_SharedCounter(Tail(rows), compCount + 1)

\* let compCount = 0; rows.map(property => { compCount++; ... })
RECURSIVE NumberedByCounter(_, _)
NumberedByCounter(rows, compCount) ==
  IF rows = <<>> THEN <<>>
  ELSE <<[row |-> rows[1], text |-> Numeral(compCount + 1)]>>
       \o NumberedByCounter(Tail(rows), compCount + 1)

\* the "Property Legend" panel: one entry per record shown, with the row of
\* the record in the list and the text inside its circle
OnScreenLegend(v, props) ==
  Lettered(Rows(props, LAMBDA p : p.type = "primary"), "P")
  \o (IF ThreeCategory(v)
      THEN Lettered(Rows(props, LAMBDA p : p.type = "hospital"), "H")
           \o NumberedByCounter(
                Rows(props, LAMBDA p : p.type = "comparable"), 0)
      ELSE NumberedByIndex(Rows(props, LAMBDA p : p.type = "comparable")))

\* the legend control exportMap adds to the map of the three-category
\* variant; the entry of the primary record has a circle without text
ExportLegend(props) ==
  LET primaryRows == Rows(props, LAMBDA p : p.type = "primary")
  IN (IF primaryRows # <<>>
      THEN <<[row |-> primaryRows[1], text |-> ""]>> ELSE <<>>)
     \o Lettered(Rows(props, LAMBDA p : p.type = "hospital"
                                        /\ Trim(p.address) # <<>>), "H")
     \o NumberedByCounter(Rows(props, LAMBDA p : p.type = "comparable"
                                                 /\ Trim(p.address) # <<>>),
                          0)

\* UTF-16 code units of the words and the separator ids are made of
CodeUnits(word) ==
  CASE word = "primary" -> <<112, 114, 105, 109, 97, 114, 121>>
    [] word = "comp" -> <<99, 111, 109, 112>>
    [] word = "comparable" -> <<99, 111, 109, 112, 97, 114, 97, 98, 108, 101>>
    [] word = "hospital" -> <<104, 111, 115, 112, 105, 116, 97, 108>>
    [] word = "-" -> <<45>>

\* code units of the decimal numeral of n
RECURSIVE Digits(_)
Digits(n) ==
  IF n < 10 THEN <<48 + n>> ELSE Digits(n \div 10) \o <<48 + (n % 10)>>

\* the string an id is: 'primary', `comp-${t}`, `${type}-${t}-${index}`
IdString(id) ==
  CodeUnits(id[1])
  \o (IF Len(id) >= 2 THEN CodeUnits("-") \o Digits(id[2]) ELSE <<>>)
  \o (IF Len(id) >= 3 THEN CodeUnits("-") \o Digits(id[3]) ELSE <<>>)

\* a <= b on strings: comparison by code units, a prefix coming first
RECURSIVE StringLessOrEqual(_, _)
StringLessOrEqual(a, b) ==
  IF a = <<>> THEN TRUE
  ELSE IF b = <<>> THEN FALSE
  ELSE IF a[1] # b[1] THEN a[1] < b[1]
  ELSE StringLessOrEqual(Tail(a), Tail(b))

\* the text of the "#" cell of row i of the property table
MarkerText(props, i) ==
  IF props[i].type = "primary" THEN "P"
  ELSE IF props[i].type = "hospital" THEN "H"
  ELSE Numeral(Len(SelectSeq(props,
         LAMBDA p : p.type = "comparable"
                    /\ StringLessOrEqual(IdString(p.id),
                                         IdString(props[i].id)))))

\* every row looked up, whatever its address
LookupRows_BlankAddresses(v, props) ==
  LET primaryRows == Rows(props, LAMBDA p : p.type = "primary")
  IN (IF primaryRows # <<>> THEN <<primaryRows[1]>> ELSE <<>>)
     \o (IF ThreeCategory(v)
         THEN Rows(props, LAMBDA p : p.type # "primary")
         ELSE Rows(props, LAMBDA p : p.type = "comparable"))

\* the rows updateMarkers looks up, in the order of the lookups: the
\* primary record, then the others, each only with a non-blank address
LookupRows(v, props) ==
  LET primaryRows == Rows(props, LAMBDA p : p.type = "primary")
  IN (IF primaryRows # <<>> /\ Trim(props[primaryRows[1]].address) # <<>>
      THEN <<primaryRows[1]>> ELSE <<>>)
     \o (IF ThreeCategory(v)
         THEN Rows(props, LAMBDA p : p.type # "primary"
                                     /\ Trim(p.address) # <<>>)
         ELSE Rows(props, LAMBDA p : p.type = "comparable"
                                     /\ Trim(p.address) # <<>>))

\* the markers of one run: rows are the looked-up rows, results[k] what
\* the lookup of rows[k] gave, i the position in the loop over the
\* non-primary rows, compCounter the counter of the three-category loop
RECURSIVE PlaceMarkers(_, _, _, _, _, _)
PlaceMarkers(v, props, rows, results, i, compCounter) ==
  IF rows = <<>> THEN <<>>
  ELSE
    LET property == props[rows[1]]
        isPrimary == property.type = "primary"
        isComp == ~isPrimary /\ ~(ThreeCategory(v) /\ property.type = "hospital")
        found == results[1] = "ok"
        nextI == IF isPrimary THEN i ELSE i + 1
        nextCounter == IF found /\ isComp THEN compCounter + 1
                       ELSE compCounter
        label == IF isPrimary THEN "P"
                 ELSE IF ~isComp THEN "H"
                 ELSE IF ThreeCategory(v) THEN Numeral(compCounter + 1)
                 ELSE Numeral(i + 1)
    IN (IF found
        THEN <<[row |-> rows[1], property |-> property, text |-> label]>>
        ELSE <<>>)
       \o PlaceMarkers(v, props, Tail(rows), Tail(results), nextI,
                       nextCounter)

\* geocodeAddress(address) gets as far as its fetch: the Mapbox variants
\* return null before it for a blank address
Fetches(v, address) == v = "nominatim" \/ Trim(address) # <<>>

\* the message geocodeAddress leaves for a lookup that threw
GeocodeError(address) ==
  <<"Failed to geocode address: ">>
  \o SubSeq(address, 1, IF Len(address) < 20 THEN Len(address) ELSE 20)
  \o <<"...">>

\* the error on display when a run over rows with these results ends:
\* the Mapbox variants report the last lookup that threw, and replace
\* that by another message when no marker was placed
RECURSIVE LastGeocodeError(_, _, _, _)
LastGeocodeError(props, rows, results, sofar) ==
  IF rows = <<>> THEN sofar
  ELSE LastGeocodeError(props, Tail(rows), Tail(results),
         IF results[1] = "error" THEN GeocodeError(props[rows[1]].address)
         ELSE sofar)

RunError(v, props, rows, results) ==
  IF v = "nominatim" THEN <<>>
  ELSE IF \A k \in 1..Len(results) : results[k] # "ok"
  THEN <<"No valid addresses found. Please check your addresses and try again.">>
  ELSE LastGeocodeError(props, rows, results, <<>>)

(* ------------------------------ state --------------------------------- *)

VARIABLES
  variant,      \* which of the three components is running
  properties,   \* React state: the property list
  now,          \* the reading Date.now() returns at this moment
  text,         \* the value of the bulk-input textarea
  issued,       \* history: ids generated before the latest operation
  last,         \* history: the latest operation, the length of the list
                \* before it and the ids it generated
  ops,          \* number of user operations so far
  map,          \* React state: whether the Leaflet map instance exists
  markers,      \* React state: the markers the latest updateMarkers placed
  requests,     \* history: the lookups the latest updateMarkers sent, each
                \* with its address and what it gave
  error,        \* React state: the error message on display, <<>> for null
  loading,      \* React state: the loading flag
  effectDeps,   \* the dependency values the debounce effect last ran with
  timers,       \* the pending debounce timers, oldest first, each with the
                \* closure of the updateMarkers it will call
  runs,         \* the runs of updateMarkers that wait for a lookup
  layers,       \* the marker layers on the Leaflet map
  runCount,     \* number of runs of updateMarkers started so far
  controls,     \* the export legend on the Leaflet map: <<>> for none,
                \* otherwise the list it was built from
  capture,      \* the position of exportMap: "idle", or "pending" while
                \* the canvas capture is awaited
  mapboxToken,  \* React state: the access token, <<>> for the empty string
  mapInitialized, \* React state: the flag of the map initialisation effect
  mounts,       \* number of map containers mounted so far
  mapContainer, \* the container the Leaflet map was created in, 0 for none
  primaryAddress, \* React state of the earliest component
  compAddresses \* React state of the earliest component

\* the state of the asynchronous marker update
asyncVars == <<loading, effectDeps, timers, runs, layers, runCount>>

\* the state of the export
exportVars == <<controls, capture>>

\* the state of the map initialisation of the Mapbox components
tokenVars == <<mapboxToken, mapInitialized, mounts, mapContainer>>

\* the address state of the earliest component
earlyVars == <<primaryAddress, compAddresses>>

\* what the handlers of the property list never touch
panelVars == <<asyncVars, exportVars, tokenVars, earlyVars>>

vars == <<variant, properties, now, text, issued, last, ops,
          map, markers, requests, error, panelVars>>

\* the state of the map panel
mapVars == <<map, markers, requests, error>>

\* the operations that run handleBulkAddressInput
ParseOps == {"bulk", "paste", "insertBlank", "deleteBlank", "replaceAddress"}

\* bookkeeping common to all user operations: parsed is the latest text with
\* a non-blank line that HandleBulkAddressInput parsed, with the list built
\* from it, before is what parsed was before the latest operation
Record(op, type, newProps, fresh) ==
  /\ properties' = newProps
  /\ issued' = issued \cup last.fresh
  /\ last' = [op |-> op, type |-> type, len |-> Len(properties),
              fresh |-> fresh,
              parsed |-> IF op = "bulk" /\ NonBlankLines(text') # <<>>
                         THEN <<text', newProps>> ELSE last.parsed,
              before |-> last.parsed]

(* ----------------------------- inputs ---------------------------------- *)

\* what the user types into a name, address or valuation input
EditValues(field) ==
  IF field = "address" THEN {<<"Edited">>, <<" ">>} ELSE {<<"Edited">>}

AllEditValues == EditValues("name") \cup EditValues("address")

\* the inputs a table row or list entry offers for editing
EditableFields(v) ==
  IF ThreeCategory(v) THEN {"name", "address", "gla", "occupancy", "rate"}
  ELSE {"name", "address"}

\* the buttons that call handleAddProperty
AddButtons(v) ==
  IF ThreeCategory(v) THEN {"comparable", "hospital"} ELSE {"comparable"}

\* n lines "a", separated by newlines
RECURSIVE AddressLines(_)
AddressLines(n) ==
  IF n = 1 THEN <<"a">> ELSE <<"a", "\n">> \o AddressLines(n - 1)

\* n lines "Hospital<TAB>a", each preceded by a newline
RECURSIVE HospitalLines(_)
HospitalLines(n) ==
  IF n = 0 THEN <<>>
  ELSE <<"\n", "Hospital", "\t", "a">> \o HospitalLines(n - 1)

\* texts pasted into the textarea of the property-list specification
BulkTexts ==
  { <<>>,
    <<" ", "\n">>,
    <<"a">>,
    <<"a", "\t", "a", "\n", "Hospital", "\t", "a", "\n", "a">>,
    <<"a", "\n", "a", "\t", "\n", "a">>,
    <<"a">> \o HospitalLines(MaxHospitals),
    <<"a">> \o HospitalLines(MaxHospitals + 1),
    AddressLines(MaxComparables + 1) }

\* smaller of two numbers
Min(a, b) == IF a < b THEN a ELSE b

\* the readings of Date.now() during one forEach over n lines: the clock
\* ticks at most once while the loop runs, before one of the lines 2 to
\* MaxTickLine (the first line is the primary record, whose id does not
\* read the clock)
ClockReadings(n) ==
  {[i \in 1..n |-> now]} \cup
  IF now < MaxClock
  THEN {[i \in 1..n |-> IF i < k THEN now ELSE now + 1] :
          k \in 2..Min(n, MaxTickLine)}
  ELSE {}

(* ----------------------------- actions --------------------------------- *)

\* the components that draw their tiles and lookups from Mapbox
MapboxVariants == {"mapbox2", "mapbox3"}

\* the access token the Mapbox components start with
InitialToken == <<"pk.initial">>

\* the mounted map container, 0 for none: the Mapbox components render it
\* only while the token is not empty
Container ==
  IF variant \in MapboxVariants /\ mapboxToken = <<>> THEN 0 ELSE mounts

\* the six empty comparable inputs the earliest component starts with
InitialCompAddresses == [i \in 1..6 |-> <<>>]

\* the dependency values of the effect that calls the debounced
\* updateMarkers
Deps ==
  IF variant = "earliest" THEN <<map, primaryAddress, compAddresses>>
  ELSE <<map, properties>>

\* the map panel after construction
PanelInit ==
  /\ loading = FALSE
  /\ primaryAddress = <<>>
  /\ compAddresses = IF variant = "earliest" THEN InitialCompAddresses
                     ELSE <<>>
  /\ effectDeps = Deps
  /\ timers = <<>>
  /\ runs = {}
  /\ layers = {}
  /\ runCount = 0
  /\ controls = <<>>
  /\ capture = "idle"
  /\ mapboxToken = IF variant \in MapboxVariants THEN InitialToken ELSE <<>>
  /\ mapInitialized = FALSE
  /\ mounts = 1
  /\ mapContainer = 0

Init ==
  /\ variant \in Variants
  /\ properties = InitialProperties(variant)
  /\ now = 0
  /\ text = <<>>
  /\ issued = {}
  /\ last = [op |-> "init", type |-> "", len |-> 0, fresh |-> {},
             parsed |-> <<>>, before |-> <<>>]
  /\ ops = 0
  /\ map = FALSE
  /\ markers = <<>>
  /\ requests = <<>>
  /\ error = <<>>
  /\ PanelInit

\* time passes
Tick ==
  /\ now < MaxClock
  /\ now' = now + 1
  /\ UNCHANGED <<variant, properties, text, issued, last, ops>>
  /\ UNCHANGED mapVars
  /\ UNCHANGED panelVars

\* handleAddProperty(type) and its bookkeeping
AddPropertyStep(type) ==
  /\ type \in AddButtons(variant)
  /\ LET newProps == IF ThreeCategory(variant)
                     THEN AddProperty3(properties, type, now)
                     ELSE AddProperty2(variant, properties, now)
     IN Record("add", type, newProps,
               IF newProps = properties THEN {}
               ELSE {newProps[Len(newProps)].id})
  /\ ops' = ops + 1
  /\ UNCHANGED <<variant, now, text>>
  /\ UNCHANGED mapVars
  /\ UNCHANGED panelVars

\* a click on "+ Add Comparable" or "+ Add Hospital"
HandleAddProperty(type) ==
  /\ ops < MaxOps
  /\ AddPropertyStep(type)

\* handleRemoveProperty(properties[i].id) and its bookkeeping
RemovePropertyStep(i) ==
  /\ i \in 1..Len(properties)
  /\ Record("remove", properties[i].type,
            RemoveProperty(properties, properties[i].id), {})
  /\ ops' = ops + 1
  /\ UNCHANGED <<variant, now, text>>
  /\ UNCHANGED mapVars
  /\ UNCHANGED panelVars

\* the remove button rendered for every row
HandleRemoveProperty_AnyRow(i) ==
  /\ ops < MaxOps
  /\ RemovePropertyStep(i)

\* a click on the remove button of row i, rendered for non-primary rows
HandleRemoveProperty(i) ==
  /\ ops < MaxOps
  /\ i \in 1..Len(properties)
  /\ properties[i].type # "primary"
  /\ RemovePropertyStep(i)

\* typing into one of the inputs of row i
HandlePropertyChange(i, field, value) ==
  /\ ops < MaxOps
  /\ i \in 1..Len(properties)
  /\ i <= MaxEditRow
  /\ field \in EditableFields(variant)
  /\ value \in EditValues(field)
  /\ properties[i][field] # value
  /\ Record("edit", "",
            PropertyChange(properties, properties[i].id, field, value), {})
  /\ ops' = ops + 1
  /\ UNCHANGED <<variant, now, text>>
  /\ UNCHANGED mapVars
  /\ UNCHANGED panelVars

\* handlePropertyTypeChange(properties[i].id, newType), from the type
\* select rendered for non-primary rows of the three-category variant
PropertyTypeChangeStep(i, newType) ==
  /\ ThreeCategory(variant)
  /\ i \in 1..Len(properties)
  /\ properties[i].type # "primary"
  /\ newType \in {"comparable", "hospital"}
  /\ newType # properties[i].type
  /\ Record("type", newType,
            PropertyTypeChange(properties, properties[i].id, newType), {})
  /\ ops' = ops + 1
  /\ UNCHANGED <<variant, now, text>>
  /\ UNCHANGED mapVars
  /\ UNCHANGED panelVars

\* choosing another entry of the type select of row i
HandlePropertyTypeChange(i, newType) ==
  /\ ops < MaxOps
  /\ PropertyTypeChangeStep(i, newType)

\* handleBulkAddressInput(t) with a reset of the error message
BulkInput_ClearsError(op, t) ==
  /\ text' = t
  /\ \E readings \in ClockReadings(Len(NonBlankLines(t))) :
       LET newProps == BulkAddressInput(variant, properties, t, readings)
       IN /\ Record(op, "", newProps,
                    IF Len(NonBlankLines(t)) = 0 THEN {}
                    ELSE {newProps[i].id : i \in 1..Len(newProps)}
                           \ {<<"primary">>})
          /\ now' = IF Len(NonBlankLines(t)) = 0 THEN now
                    ELSE readings[Len(NonBlankLines(t))]
  /\ error' = <<>>
  /\ UNCHANGED <<variant, map, markers, requests>>
  /\ UNCHANGED panelVars

\* the textarea's onChange with value t: handleBulkAddressInput(t)
BulkInput(op, t) ==
  /\ text' = t
  /\ \E readings \in ClockReadings(Len(NonBlankLines(t))) :
       LET newProps == BulkAddressInput(variant, properties, t, readings)
       IN /\ Record(op, "", newProps,
                    IF Len(NonBlankLines(t)) = 0 THEN {}
                    ELSE {newProps[i].id : i \in 1..Len(newProps)}
                           \ {<<"primary">>})
          /\ now' = IF Len(NonBlankLines(t)) = 0 THEN now
                    ELSE readings[Len(NonBlankLines(t))]
  /\ UNCHANGED variant
  /\ UNCHANGED mapVars
  /\ UNCHANGED panelVars

HandleBulkAddressInput(t) ==
  /\ ops < MaxOps
  /\ BulkInput("bulk", t)
  /\ ops' = ops + 1

Next ==
  \/ Tick
  \/ \E type \in {"comparable", "hospital"} : HandleAddProperty(type)
  \/ \E i \in 1..Len(properties) : HandleRemoveProperty(i)
  \/ \E i \in 1..Len(properties), field \in EditableFields(variant),
        value \in AllEditValues : HandlePropertyChange(i, field, value)
  \/ \E i \in 1..Len(properties), newType \in {"comparable", "hospital"} :
        HandlePropertyTypeChange(i, newType)
  \/ \E t \in BulkTexts : HandleBulkAddressInput(t)

Spec == Init /\ [][Next]_vars

(* --------------------------- the map panel ----------------------------- *)

\* what the lookups of one run give: coordinates ("ok"), no match ("none")
\* or a failed request ("error"); at most one lookup of a run gives
\* something else than coordinates, one of the first MaxFailLookup
LookupResults(n) ==
  {[k \in 1..n |-> "ok"]} \cup
  {[k \in 1..n |-> IF k = j THEN answer ELSE "ok"] :
     j \in 1..Min(n, MaxFailLookup), answer \in {"none", "error"}}

\* the effect that creates the Leaflet map in the mounted container: the
\* Mapbox components run it when the token or mapInitialized changes, the
\* others once
MapInit ==
  /\ Container # 0
  /\ ~map
  /\ variant \in MapboxVariants => mapboxToken # <<>> /\ ~mapInitialized
  /\ map' = TRUE
  /\ mapContainer' = Container
  /\ mapInitialized' = (variant \in MapboxVariants)
  /\ loading' = IF variant \in MapboxVariants THEN FALSE ELSE loading
  /\ UNCHANGED <<variant, properties, now, text, issued, last, ops>>
  /\ UNCHANGED <<markers, requests, error>>
  /\ UNCHANGED <<mapboxToken, mounts>>
  /\ UNCHANGED <<effectDeps, timers, runs, layers, runCount>>
  /\ UNCHANGED <<exportVars, earlyVars>>

\* one run of updateMarkers, from the "Update Map" button of the Mapbox
\* variants (the access token keeps its initial value, which is not empty)
\* or from the debounced effect of the Nominatim variant, which runs only
\* once the map exists
UpdateMarkers ==
  /\ ops < MaxOps
  /\ variant = "nominatim" => map
  /\ variant \in MapboxVariants => ~loading /\ mapboxToken # <<>>
  /\ IF ~map
     THEN /\ error' = <<"Map not initialized or missing Mapbox token">>
          /\ UNCHANGED <<markers, requests>>
     ELSE LET rows == LookupRows(variant, properties)
              address == [k \in 1..Len(rows) |-> properties[rows[k]].address]
          IN \E answers \in LookupResults(Len(rows)) :
               LET results == [k \in 1..Len(rows) |->
                                 IF Fetches(variant, address[k])
                                 THEN answers[k] ELSE "none"]
               IN /\ markers' = PlaceMarkers(variant, properties, rows,
                                             results, 0, 0)
                  /\ requests' = SelectSeq(
                       [k \in 1..Len(rows) |->
                          [address |-> address[k], answer |-> results[k]]],
                       LAMBDA r : Fetches(variant, r.address))
                  /\ error' = RunError(variant, properties, rows, results)
  /\ Record("update", "", properties, {})
  /\ ops' = ops + 1
  /\ UNCHANGED <<variant, now, text, map>>
  /\ UNCHANGED panelVars

NextMap ==
  \/ Next
  \/ MapInit
  \/ UpdateMarkers

SpecMap == Init /\ [][NextMap]_vars

(* -------------------- the rows of the list, longer --------------------- *)

\* a click on an add button
AddRow(type) ==
  /\ ops < MaxListOps
  /\ AddPropertyStep(type)

\* a click on the remove button of a non-primary row
RemoveRow(i) ==
  /\ ops < MaxListOps
  /\ i \in 1..Len(properties)
  /\ properties[i].type # "primary"
  /\ RemovePropertyStep(i)

\* a choice in the type select of a row
RetypeRow(i, newType) ==
  /\ ops < MaxListOps
  /\ PropertyTypeChangeStep(i, newType)

NextList ==
  \/ Tick
  \/ \E type \in {"comparable", "hospital"} : AddRow(type)
  \/ \E i \in 1..Len(properties) : RemoveRow(i)
  \/ \E i \in 1..Len(properties), newType \in {"comparable", "hospital"} :
        RetypeRow(i, newType)

SpecList == Init /\ [][NextList]_vars

(* ------------------- the parser on arbitrary texts --------------------- *)

\* the tokens of the texts the parser is run on
Alphabet == {"a", "Hospital", " ", "\t", "NBSP", "\n"}

Texts == UNION {[1..n -> Alphabet] : n \in 0..MaxTextLen}

\* lines.join('\n'), the inverse of text.split('\n')
RECURSIVE JoinNewline(_)
JoinNewline(lines) ==
  IF Len(lines) = 1 THEN lines[1]
  ELSE lines[1] \o <<"\n">> \o JoinNewline(Tail(lines))

\* whitespace-only lines the user inserts
BlankLines == {<<>>, <<" ">>, <<"\t">>}

\* the components whose parsers differ: handleBulkAddressInput of
\* src/unnamed/part_000 is the text of the one of src/app.js 289-326
ParserVariants == {"mapbox2", "mapbox3"}

\* the text is in the clipboard; nothing has been pasted yet
InitParse ==
  /\ variant \in ParserVariants
  /\ properties = InitialProperties(variant)
  /\ now = 0
  /\ text \in Texts
  /\ issued = {}
  /\ last = [op |-> "init", type |-> "", len |-> 0, fresh |-> {},
             parsed |-> <<>>, before |-> <<>>]
  /\ ops = 0
  /\ map = FALSE
  /\ markers = <<>>
  /\ requests = <<>>
  /\ error = <<>>
  /\ PanelInit

\* the text is pasted into the empty textarea
PasteText ==
  /\ last.op = "init"
  /\ BulkInput("paste", text)
  /\ UNCHANGED ops

\* the user inserts a blank line before line k + 1 of the textarea
InsertBlankLine(k, blank) ==
  /\ last.op # "init"
  /\ LET lines == SplitNewline(text, <<>>)
     IN /\ k \in 0..Len(lines)
        /\ Len(text) + Len(blank) + 1 <= MaxTextLen
        /\ BulkInput("insertBlank",
                     JoinNewline(SubSeq(lines, 1, k) \o <<blank>>
                                 \o SubSeq(lines, k + 1, Len(lines))))
  /\ UNCHANGED ops

\* the user deletes the blank line k of the textarea
DeleteBlankLine(k) ==
  /\ last.op # "init"
  /\ LET lines == SplitNewline(text, <<>>)
     IN /\ k \in 1..Len(lines)
        /\ Len(lines) >= 2
        /\ Trim(lines[k]) = <<>>
        /\ BulkInput("deleteBlank",
                     JoinNewline(SubSeq(lines, 1, k - 1)
                                 \o SubSeq(lines, k + 1, Len(lines))))
  /\ UNCHANGED ops

NextParse ==
  \/ PasteText
  \/ \E k \in 0..(MaxTextLen + 1), blank \in BlankLines :
        InsertBlankLine(k, blank)
  \/ \E k \in 1..(MaxTextLen + 1) : DeleteBlankLine(k)

SpecParse == InitParse /\ [][NextParse]_vars

(* ---------------- vocabulary of the statements below ------------------- *)

\* positions of the line breaks of t, with the two ends of the text
LineBreaks(t) == {i \in 1..Len(t) : t[i] = "\n"} \cup {0, Len(t) + 1}

\* the line of t that starts right after the break at b
LineFrom(t, b) ==
  LET e == CHOOSE x \in LineBreaks(t) :
             x > b /\ \A y \in LineBreaks(t) : y > b => x <= y
  IN SubSeq(t, b + 1, e - 1)

\* the breaks after which a line with a visible character starts
NonBlankStarts(t) ==
  {b \in LineBreaks(t) \ {Len(t) + 1} :
     \E i \in 1..Len(LineFrom(t, b)) : LineFrom(t, b)[i] \notin WhiteSpace}

NumLines(t) == Cardinality(NonBlankStarts(t))

\* the non-blank lines of t, by 0-based position
NonBlank(t) ==
  LET starts == NonBlankStarts(t)
  IN [k \in 0..(Cardinality(starts) - 1) |->
        LineFrom(t, CHOOSE b \in starts :
                      Cardinality({c \in starts : c < b}) = k)]

\* the non-blank line of t at 0-based position k
NthLine(t, k) == NonBlank(t)[k]

\* the characters of s that are not whitespace
Visible(s) == SelectSeq(s, LAMBDA c : c \notin WhiteSpace)

\* the synthesized name of a record of the given type at position k
DefaultName(type, k) ==
  IF k = 0 THEN <<"Primary", " ", "Property">>
  ELSE IF type = "hospital" THEN <<"Hospital", " ", Numeral(k)>>
  ELSE <<"Comparable", " ", Numeral(k)>>

\* record r carries the content of line, found at position k
BuiltFrom(r, line, k) ==
  \/ Visible(r.name \o r.address) = Visible(line)
  \/ r.name = DefaultName(r.type, k) /\ Visible(r.address) = Visible(line)

\* length of the run of characters of class that s starts with
RECURSIVE RunOf(_, _)
RunOf(s, class) ==
  IF s # <<>> /\ Head(s) \in class THEN 1 + RunOf(Tail(s), class) ELSE 0

\* length of the delimiter that starts at position p of line (0: none),
\* a delimiter being one tab or a run of two or more characters of class
DelimiterAt(line, p, class) ==
  LET rest == SubSeq(line, p, Len(line))
  IN IF line[p] = "\t" THEN 1
     ELSE IF RunOf(rest, class) >= 2 THEN RunOf(rest, class)
     ELSE 0

HasDelimiter(line, class) ==
  \E p \in 1..Len(line) : DelimiterAt(line, p, class) > 0

FirstDelimiter(line, class) ==
  CHOOSE p \in 1..Len(line) :
    /\ DelimiterAt(line, p, class) > 0
    /\ \A q \in 1..(p - 1) : DelimiterAt(line, q, class) = 0

\* s with every delimiter replaced by one space
RECURSIVE ReplaceDelimiters(_, _)
ReplaceDelimiters(s, class) ==
  IF s = <<>> THEN <<>>
  ELSE IF DelimiterAt(s, 1, class) > 0
       THEN <<" ">> \o ReplaceDelimiters(
                         SubSeq(s, DelimiterAt(s, 1, class) + 1, Len(s)), class)
  ELSE <<Head(s)>> \o ReplaceDelimiters(Tail(s), class)

\* the trimmed first segment of a line that has a delimiter
FirstSegment(line, class) ==
  Trim(SubSeq(line, 1, FirstDelimiter(line, class) - 1))

\* the remaining segments, joined with single spaces and trimmed
RemainingSegments(line, class) ==
  LET p == FirstDelimiter(line, class)
  IN Trim(ReplaceDelimiters(
            SubSeq(line, p + DelimiterAt(line, p, class), Len(line)), class))

\* the latest operation ran handleBulkAddressInput on text
Parsed == last.op \in ParseOps

(* ----------------- the classifier on a second line --------------------- *)

\* the tokens of the second line of the texts the classifier is run on
LineAlphabet ==
  {"a", "Hospital", "Medical", "center", "healthcare", " ", "\t"}

\* a first line "a" followed by a second line
TwoLineTexts ==
  {<<"a", "\n">> \o line :
     line \in UNION {[1..n -> LineAlphabet] : n \in 1..MaxLineLen}}

\* addresses the user types in place of the one of the second line
NewAddresses == {<<"a">>, <<"Hospital">>, <<"a", " ", "healthcare">>}

\* the text is in the clipboard of the three-category variant
InitClassify ==
  /\ variant = "mapbox3"
  /\ properties = InitialProperties(variant)
  /\ now = 0
  /\ text \in TwoLineTexts
  /\ issued = {}
  /\ last = [op |-> "init", type |-> "", len |-> 0, fresh |-> {},
             parsed |-> <<>>, before |-> <<>>]
  /\ ops = 0
  /\ map = FALSE
  /\ markers = <<>>
  /\ requests = <<>>
  /\ error = <<>>
  /\ PanelInit

\* the user replaces the address of the second line in the textarea: what
\* follows the first delimiter of a line that has one, the whole line of
\* one that has none
ReplaceAddress(address) ==
  /\ last.op # "init"
  /\ LET line == SubSeq(text, 3, Len(text))
         newLine == IF HasDelimiter(line, WhiteSpace)
                    THEN LET p == FirstDelimiter(line, WhiteSpace)
                         IN SubSeq(line, 1,
                                   p + DelimiterAt(line, p, WhiteSpace) - 1)
                            \o address
                    ELSE address
     IN /\ Trim(line) # <<>>
        /\ newLine # line
        /\ BulkInput("replaceAddress", <<"a", "\n">> \o newLine)
  /\ UNCHANGED ops

NextClassify ==
  \/ PasteText
  \/ \E address \in NewAddresses : ReplaceAddress(address)

SpecClassify == InitClassify /\ [][NextClassify]_vars

(* ------------------ the asynchronous marker update --------------------- *)

\* a render has changed a dependency of the effect, which has not run yet
EffectPending == effectDeps # Deps

\* what the updateMarkers of the current render closes over
Closure ==
  [map |-> map, markers |-> markers,
   props |-> IF variant = "earliest" THEN <<primaryAddress, compAddresses>>
             ELSE properties]

\* what the updateMarkers of the first render of the earliest component
\* closes over: useRef keeps the debounced function made from it
FirstRenderClosure ==
  [map |-> FALSE, markers |-> <<>>, props |-> <<<<>>, InitialCompAddresses>>]

\* the addresses one run of updateMarkers sends to the geocoder, in order
Lookups(v, props) ==
  IF v = "earliest"
  THEN (IF Trim(props[1]) # <<>> THEN <<props[1]>> ELSE <<>>)
       \o SelectSeq(props[2], LAMBDA a : Trim(a) # <<>>)
  ELSE LET rows == LookupRows(v, props)
       IN [k \in 1..Len(rows) |-> props[rows[k]].address]

\* the effect with the list and the map as dependencies: it calls the
\* debounced updateMarkers when the map exists. The earliest component
\* keeps one debounced function, whose timer the call restarts; the
\* component of src/unnamed/part_000 makes a new debounced function, with
\* a timer of its own, whenever a dependency has changed
DebounceEffect ==
  /\ variant \notin MapboxVariants
  /\ EffectPending
  /\ effectDeps' = Deps
  /\ timers' = IF ~map THEN timers
               ELSE IF variant = "earliest" THEN <<FirstRenderClosure>>
               ELSE Append(timers, Closure)
  /\ UNCHANGED <<variant, properties, now, text, issued, last, ops>>
  /\ UNCHANGED mapVars
  /\ UNCHANGED <<loading, runs, layers, runCount>>
  /\ UNCHANGED <<exportVars, tokenVars, earlyVars>>

\* the oldest debounce timer fires and calls updateMarkers, which runs up
\* to its first lookup: it returns at once without a map, and it finishes
\* at once when it has no address to look up
TimerFires ==
  /\ timers # <<>>
  /\ timers' = Tail(timers)
  /\ LET c == Head(timers)
         lookups == Lookups(variant, c.props)
     IN IF ~c.map
        THEN UNCHANGED <<markers, error, loading, runs, layers, runCount>>
        ELSE /\ error' = <<>>
             /\ layers' = layers \ {c.markers[k] : k \in 1..Len(c.markers)}
             /\ markers' = <<>>
             /\ runCount' = runCount + 1
             /\ IF lookups = <<>>
                THEN /\ loading' = FALSE
                     /\ UNCHANGED runs
                ELSE /\ loading' = TRUE
                     /\ runs' = runs \cup
                          {[id |-> runCount + 1, lookups |-> lookups,
                            next |-> 1, newMarkers |-> <<>>]}
  /\ UNCHANGED <<variant, properties, now, text, issued, last, ops>>
  /\ UNCHANGED <<map, requests, effectDeps>>
  /\ UNCHANGED <<exportVars, tokenVars, earlyVars>>

\* the lookup a run waits for returns: with coordinates ("ok") the run puts
\* a marker on the map; geocodeAddress turns a failed request ("error")
\* into null. After its last lookup the run stores its markers and clears
\* the loading flag
LookupReturns(r, answer) ==
  /\ r \in runs
  /\ answer \in {"ok", "error"}
  /\ LET placed == IF answer = "ok"
                   THEN <<[run |-> r.id, lookup |-> r.next]>> ELSE <<>>
         newMarkers == r.newMarkers \o placed
     IN /\ layers' = layers \cup {placed[k] : k \in 1..Len(placed)}
        /\ IF r.next < Len(r.lookups)
           THEN /\ runs' = (runs \ {r}) \cup
                     {[r EXCEPT !.next = @ + 1, !.newMarkers = newMarkers]}
                /\ UNCHANGED <<markers, loading>>
           ELSE /\ runs' = runs \ {r}
                /\ markers' = newMarkers
                /\ loading' = FALSE
  /\ UNCHANGED <<variant, properties, now, text, issued, last, ops>>
  /\ UNCHANGED <<map, requests, error, effectDeps, timers, runCount>>
  /\ UNCHANGED <<exportVars, tokenVars, earlyVars>>

\* typing into an input of the list, once the effects of the previous
\* render have run
ChangeProperty(i, field, value) ==
  /\ ~EffectPending
  /\ HandlePropertyChange(i, field, value)

\* a click on "+ Add Comparable", once the effects of the previous render
\* have run
AddComparable ==
  /\ ~EffectPending
  /\ HandleAddProperty("comparable")

\* the component of src/unnamed/part_000 after construction
InitAsync ==
  /\ Init
  /\ variant = "nominatim"

NextAsync ==
  \/ MapInit
  \/ \E i \in 1..Len(properties), field \in EditableFields(variant),
        value \in AllEditValues : ChangeProperty(i, field, value)
  \/ AddComparable
  \/ DebounceEffect
  \/ TimerFires
  \/ \E r \in runs, answer \in {"ok", "error"} : LookupReturns(r, answer)

SpecAsync == InitAsync /\ [][NextAsync]_vars

(* ----------------------- the earliest component ------------------------ *)

\* what the user types into an address input
EarlyValues == {<<>>, <<" ">>, <<"Edited">>}

\* n lines "a", separated by line breaks
RECURSIVE Lines(_)
Lines(n) ==
  IF n = 0 THEN <<>>
  ELSE IF n = 1 THEN <<"a">>
  ELSE <<"a", "\n">> \o Lines(n - 1)

\* what the user pastes into the textarea of the earliest component
EarlyTexts ==
  {<<>>, <<" ", "\n">>, Lines(1), Lines(2),
   Lines(MaxComparables + 1), Lines(MaxComparables + 2)}

\* the textarea's onChange, with every line after the first one kept
BulkAddresses_NoLimit(t) ==
  LET addresses == NonBlankLines(t)
  IN IF Len(addresses) > 0
     THEN <<addresses[1], SubSeq(addresses, 2, Len(addresses))>>
     ELSE <<<<>>, <<<<>>>>>>

\* the textarea's onChange: the new primaryAddress and compAddresses
BulkAddresses(t) ==
  LET addresses == NonBlankLines(t)
  IN IF Len(addresses) > 0
     THEN <<addresses[1],
            SubSeq(addresses, 2, Min(Len(addresses), MaxComparables + 1))>>
     ELSE <<<<>>, <<<<>>>>>>

\* handleAddCompAddress
AddCompAddress(comps) ==
  IF Len(comps) < MaxComparables THEN Append(comps, <<>>) ELSE comps

\* handleRemoveCompAddress(index - 1)
RemoveCompAddress(comps, index) ==
  SubSeq(comps, 1, index - 1) \o SubSeq(comps, index + 1, Len(comps))

\* handleCompAddressChange(index - 1, value)
CompAddressChange(comps, index, value) ==
  [comps EXCEPT ![index] = value]

\* the earliest component after construction
InitEarly ==
  /\ variant = "earliest"
  /\ properties = <<>>
  /\ now = 0
  /\ text = <<>>
  /\ issued = {}
  /\ last = [op |-> "init", type |-> "", len |-> 0, fresh |-> {},
             parsed |-> <<>>, before |-> <<>>]
  /\ ops = 0
  /\ map = FALSE
  /\ markers = <<>>
  /\ requests = <<>>
  /\ error = <<>>
  /\ PanelInit

\* a user operation of the earliest component that sets the two address
\* states, once the effects of the previous render have run
SetAddresses(op, primary, comps) ==
  /\ ops < MaxEarlyOps
  /\ ~EffectPending
  /\ primaryAddress' = primary
  /\ compAddresses' = comps
  /\ Record(op, "", properties, {})
  /\ ops' = ops + 1
  /\ UNCHANGED <<variant, now>>
  /\ UNCHANGED mapVars
  /\ UNCHANGED <<asyncVars, exportVars, tokenVars>>

\* typing into the primary address input
SetPrimaryAddress(value) ==
  /\ value # primaryAddress
  /\ SetAddresses("primary", value, compAddresses)
  /\ UNCHANGED text

\* typing into one of the first MaxEditRow comparable inputs
HandleCompAddressChange(index, value) ==
  /\ index \in 1..Min(Len(compAddresses), MaxEditRow)
  /\ value # compAddresses[index]
  /\ SetAddresses("comp", primaryAddress,
                  CompAddressChange(compAddresses, index, value))
  /\ UNCHANGED text

\* a click on "+ Add", disabled at MaxComparables entries
HandleAddCompAddress ==
  /\ Len(compAddresses) < MaxComparables
  /\ SetAddresses("addComp", primaryAddress, AddCompAddress(compAddresses))
  /\ UNCHANGED text

\* a click on the remove button of an entry
HandleRemoveCompAddress(index) ==
  /\ index \in 1..Len(compAddresses)
  /\ SetAddresses("removeComp", primaryAddress,
                  RemoveCompAddress(compAddresses, index))
  /\ UNCHANGED text

\* the textarea's onChange with value t
HandleBulkAddresses(t) ==
  /\ text' = t
  /\ SetAddresses("bulkAddresses", BulkAddresses(t)[1], BulkAddresses(t)[2])

NextEarly ==
  \/ MapInit
  \/ \E value \in EarlyValues : SetPrimaryAddress(value)
  \/ \E index \in 1..MaxEditRow, value \in EarlyValues :
        HandleCompAddressChange(index, value)
  \/ HandleAddCompAddress
  \/ \E index \in 1..Len(compAddresses) : HandleRemoveCompAddress(index)
  \/ \E t \in EarlyTexts : HandleBulkAddresses(t)
  \/ DebounceEffect
  \/ TimerFires

SpecEarly == InitEarly /\ [][NextEarly]_vars

\* the effect and the timer run whenever they can
FairEarly ==
  SpecEarly /\ WF_vars(MapInit) /\ WF_vars(DebounceEffect)
            /\ WF_vars(TimerFires)

(* ------------------- the token and the export -------------------------- *)

\* what the user leaves in the token input
TokenValues == {<<>>, InitialToken, <<"pk.other">>}

\* the onChange of the token input: the container of the map is unmounted
\* when the token becomes empty, and a new one is mounted when it stops
\* being empty
HandleTokenChange(value) ==
  /\ variant \in MapboxVariants
  /\ value \in TokenValues
  /\ value # mapboxToken
  /\ mapboxToken' = value
  /\ mapInitialized' = FALSE
  /\ IF mapboxToken = <<>>
     THEN /\ mounts < MaxMounts
          /\ mounts' = mounts + 1
     ELSE UNCHANGED mounts
  /\ UNCHANGED <<variant, properties, now, text, issued, last, ops>>
  /\ UNCHANGED mapVars
  /\ UNCHANGED <<mapContainer, asyncVars, exportVars, earlyVars>>

\* a click on "Export Map (PNG)": exportMap up to its setTimeout. It adds
\* the legend and title controls unless it finds their elements in the
\* document; the Mapbox components set the loading flag and disable the
\* button without markers; every component disables it while loading.
\* The next click comes after the capture has settled
ExportMap ==
  /\ map
  /\ capture = "idle"
  /\ ~loading
  /\ variant \in MapboxVariants => markers # <<>>
  /\ controls' = IF controls = <<>> THEN <<properties>> ELSE controls
  /\ capture' = "pending"
  /\ loading' = IF variant \in MapboxVariants THEN TRUE ELSE loading
  /\ UNCHANGED <<variant, properties, now, text, issued, last, ops>>
  /\ UNCHANGED mapVars
  /\ UNCHANGED <<effectDeps, timers, runs, layers, runCount>>
  /\ UNCHANGED <<tokenVars, earlyVars>>

\* the message of a failed export
ExportError == <<"There was an error exporting the map. Please try again.">>

\* html2canvas settles: its then-branch downloads the image and removes
\* the controls, its catch-branch reports the failure (through setError in
\* the Mapbox components, through alert in src/unnamed/part_000)
CaptureDone(outcome) ==
  /\ capture = "pending"
  /\ outcome \in {"ok", "failed"}
  /\ capture' = "idle"
  /\ controls' = IF outcome = "ok" THEN <<>> ELSE controls
  /\ loading' = IF variant \in MapboxVariants THEN FALSE ELSE loading
  /\ error' = IF variant \in MapboxVariants /\ outcome = "failed"
              THEN ExportError ELSE error
  /\ UNCHANGED <<variant, properties, now, text, issued, last, ops>>
  /\ UNCHANGED <<map, markers, requests>>
  /\ UNCHANGED <<effectDeps, timers, runs, layers, runCount>>
  /\ UNCHANGED <<tokenVars, earlyVars>>

NextPanel ==
  \/ MapInit
  \/ \E value \in TokenValues : HandleTokenChange(value)
  \/ \E i \in 1..Len(properties), field \in EditableFields(variant),
        value \in AllEditValues : HandlePropertyChange(i, field, value)
  \/ UpdateMarkers
  \/ ExportMap
  \/ \E outcome \in {"ok", "failed"} : CaptureDone(outcome)

SpecPanel == Init /\ [][NextPanel]_vars

\* the effect that creates the map runs whenever it can
FairPanel == SpecPanel /\ WF_vars(MapInit)

(* ------------------------- the property list --------------------------- *)

\* C1: in every reachable state the list holds exactly one record of type
\* primary, and it is the record with the reserved id: no add, remove,
\* edit, type change or bulk input removes it or changes its type
C1_ExactlyOnePrimary ==
  /\ CountType(properties, "primary") = 1
  /\ \A i \in 1..Len(properties) :
       properties[i].type = "primary" <=> properties[i].id = <<"primary">>

\* the primary record alone is left after the other records were removed
C1_Witness ==
  /\ last.op = "remove"
  /\ last.len >= 2
  /\ Len(properties) = 1

\* C2: in every reachable state the list holds at most 12 comparable
\* records and at most 5 hospital records
C2_Caps ==
  /\ CountType(properties, "comparable") <= MaxComparables
  /\ CountType(properties, "hospital") <= MaxHospitals

\* C3: handleAddProperty at the cap of the requested type changes nothing;
\* below the cap it appends one record of that type with an empty address
\* and leaves the records before it as they were
C3_AddFrame ==
  [][(ops' = ops + 1 /\ last'.op = "add") =>
       LET atCap ==
             \/ /\ last'.type = "comparable"
                /\ CountType(properties, "comparable") >= MaxComparables
             \/ /\ last'.type = "hospital"
                /\ CountType(properties, "hospital") >= MaxHospitals
       IN /\ <<variant, now, text>>' = <<variant, now, text>>
          /\ IF atCap THEN properties' = properties
             ELSE /\ Len(properties') = Len(properties) + 1
                  /\ SubSeq(properties', 1, Len(properties)) = properties
                  /\ properties'[Len(properties')].type = last'.type
                  /\ properties'[Len(properties')].address = <<>>]_vars

\* the add button was pressed on a list of 12 comparables
C3_Witness ==
  /\ last.op = "add"
  /\ last.type = "comparable"
  /\ last.len = Len(properties)
  /\ CountType(properties, "comparable") = MaxComparables

\* C4: no two records of the list share an id, and no id generated by the
\* latest add or bulk input was generated by an earlier operation
C4_UniqueIds ==
  /\ \A i, j \in 1..Len(properties) :
       i # j => properties[i].id # properties[j].id
  /\ last.fresh \cap issued = {}

\* C5: after a bulk input with n >= 1 non-blank lines the list is the n
\* records built from those lines, in line order, and nothing else
C5_BulkReplaces ==
  (last.op = "bulk" /\ NumLines(text) >= 1) =>
     LET lines == NonBlank(text)
     IN /\ Len(properties) = NumLines(text)
        /\ \A k \in DOMAIN lines :
             BuiltFrom(properties[k + 1], lines[k], k)

\* a one-line text replaced a list that held a manually added record
C5_Witness ==
  /\ last.op = "bulk"
  /\ last.len >= 2
  /\ NumLines(text) = 1
  /\ Len(properties) = 1

(* --------------------------- the bulk parser --------------------------- *)

\* C6: for a text with a non-blank line the parsed list has exactly one
\* primary record, it is the first record and is built from the first
\* non-blank line whatever the line contains; one non-blank line yields
\* the primary record alone
C6_PrimaryFirst ==
  (Parsed /\ NumLines(text) >= 1) =>
     /\ CountType(properties, "primary") = 1
     /\ properties[1].type = "primary"
     /\ BuiltFrom(properties[1], NthLine(text, 0), 0)
     /\ NumLines(text) = 1 => Len(properties) = 1

\* the three-category parser met a hospital keyword on the first line
C6_Witness ==
  /\ last.op = "paste"
  /\ variant = "mapbox3"
  /\ NumLines(text) >= 2
  /\ Includes(NthLine(text, 0), <<"Hospital">>)

\* C7: inserting or deleting a blank line changes neither the number of
\* records nor the type, name or address of any record
C7_BlankLinesIgnored ==
  [][(text' # text /\ last'.op \in {"insertBlank", "deleteBlank"}) =>
       /\ Len(properties') = Len(properties)
       /\ \A i \in 1..Len(properties) :
            /\ properties'[i].type = properties[i].type
            /\ properties'[i].name = properties[i].name
            /\ properties'[i].address = properties[i].address]_vars

\* a blank line was inserted in front of two or more lines
C7_Witness ==
  /\ last.op = "insertBlank"
  /\ NumLines(text) >= 2
  /\ text[1] = "\n"

\* the statement of C8 for delimiters made of one tab or of two or more
\* characters of class
SegmentsRule(class) ==
  Parsed =>
    LET lines == NonBlank(text)
    IN \A k \in DOMAIN lines :
         HasDelimiter(lines[k], class) =>
           /\ properties[k + 1].name = FirstSegment(lines[k], class)
           /\ properties[k + 1].address = RemainingSegments(lines[k], class)

NoDelimiterRule(class) ==
  Parsed =>
    LET lines == NonBlank(text)
    IN \A k \in DOMAIN lines :
         ~HasDelimiter(lines[k], class) =>
           /\ properties[k + 1].address = Trim(lines[k])
           /\ properties[k + 1].name = DefaultName(properties[k + 1].type, k)

C10_NameNeverEmpty ==
  Parsed =>
    LET lines == NonBlank(text)
    IN \A k \in DOMAIN lines :
         /\ properties[k + 1].name # <<>>
         /\ \/ properties[k + 1].name = DefaultName(properties[k + 1].type, k)
            \/ Includes(lines[k], properties[k + 1].name)

(* --------------------------- classification ---------------------------- *)

\* the keywords of the hospital heuristic
Keywords == {<<"hospital">>, <<"medical", " ", "center">>, <<"healthcare">>}

\* the segment of a line the parser takes for the name: what precedes the
\* first delimiter, the whole line when it has no delimiter
NameSegment(line) ==
  IF HasDelimiter(line, WhiteSpace)
  THEN SubSeq(line, 1, FirstDelimiter(line, WhiteSpace) - 1)
  ELSE line

\* the segment contains a keyword, letter case ignored
MentionsHospital(segment) ==
  \E w \in Keywords : Includes(ToLowerCase(segment), w)

C12_TypeIgnoresAddress ==
  [][(last.op # "init" /\ last'.op = "replaceAddress") =>
       /\ Len(properties') = Len(properties)
       /\ \A i \in 1..Len(properties) :
            properties'[i].type = properties[i].type]_vars

(* ------------------------- ids and repetition -------------------------- *)

\* the ids handleBulkAddressInput generated in earlier calls
ParsedBefore == {id \in issued : Len(id) = 3}

\* C13: after a parse the first record has the id 'primary', the ids of the
\* other records are pairwise distinct, and none of them was produced by an
\* earlier parse, whatever the clock read during the calls
C13_ParseIdsFresh ==
  (last.op = "bulk" /\ NumLines(text) >= 1) =>
    /\ properties[1].id = <<"primary">>
    /\ \A i, j \in 2..Len(properties) :
         i # j => properties[i].id # properties[j].id
    /\ \A i \in 2..Len(properties) : properties[i].id \notin ParsedBefore

\* C14: a bulk text without a non-blank line leaves the list exactly as it
\* was, whatever the list was
C14_BlankTextKeepsList ==
  [][(ops' = ops + 1 /\ last'.op = "bulk" /\ NumLines(text') = 0) =>
       properties' = properties]_vars

\* a whitespace-only text arrived when the list held parsed records
C14_Witness ==
  /\ last.op = "bulk"
  /\ text # <<>>
  /\ NumLines(text) = 0
  /\ Len(properties) >= 3
  /\ last.len = Len(properties)

\* name, address and type of every record of a list
Content(props) ==
  [i \in 1..Len(props) |-> <<props[i].name, props[i].address, props[i].type>>]

\* the latest operation parsed the text that the parse before it had parsed
ParsedAgain ==
  /\ last.op = "bulk"
  /\ NumLines(text) >= 1
  /\ last.before # <<>>
  /\ last.before[1] = text

\* C15: a parse of the text an earlier parse was given, whatever the list
\* and the clock were at either call, gives a list of the same length that
\* agrees with the earlier one in name, address and type at every position,
\* and both lists start with the id 'primary'
C15_ParseRepeatable ==
  ParsedAgain =>
    /\ Len(properties) = Len(last.before[2])
    /\ Content(properties) = Content(last.before[2])
    /\ properties[1].id = <<"primary">>
    /\ last.before[2][1].id = <<"primary">>

\* the second parse of a text with a hospital line and an address line read
\* another clock value than the first
C15_Witness ==
  /\ ParsedAgain
  /\ Len(properties) >= 3
  /\ properties[2].id # last.before[2][2].id
  /\ properties[3].name = <<"Comparable", " ", "2">>

(* ------------------------------ numbering ------------------------------ *)

\* the place of row i among the comparable rows of a list, from 1
ComparableRank(props, i) ==
  Cardinality({j \in 1..i : props[j].type = "comparable"})

\* the label the numbering rule puts in the circle of row i
ExpectedLabel(props, i) ==
  IF props[i].type = "primary" THEN "P"
  ELSE IF props[i].type = "hospital" THEN "H"
  ELSE Numeral(ComparableRank(props, i))

\* the text a legend shows for row i
LabelIn(legend, i) ==
  legend[CHOOSE k \in 1..Len(legend) : legend[k].row = i].text

\* C16: the on-screen legend has one entry per record; the entry of the
\* primary record reads 'P', the entry of every hospital reads 'H', and the
\* entries of the comparables read 1..N in list order, counted by a counter
\* that only comparables advance
C16_LegendLabels ==
  LET legend == OnScreenLegend(variant, properties)
  IN /\ \A i \in 1..Len(properties) :
          Cardinality({k \in 1..Len(legend) : legend[k].row = i}) = 1
     /\ \A k \in 1..Len(legend) :
          legend[k].text = ExpectedLabel(properties, legend[k].row)
     /\ \A k, l \in 1..Len(legend) :
          (/\ k < l
           /\ properties[legend[k].row].type = "comparable"
           /\ properties[legend[l].row].type = "comparable")
          => legend[k].row < legend[l].row

\* a hospital stands between the first and the second comparable
C16_Witness ==
  \E i, j, k \in 1..Len(properties) :
    /\ i < j /\ j < k
    /\ properties[i].type = "comparable"
    /\ properties[j].type = "hospital"
    /\ properties[k].type = "comparable"
    /\ LabelIn(OnScreenLegend(variant, properties), k) = "2"

\* C17: in the three-category variant the number in the "#" cell of a
\* comparable row of the table is the place of the row among the
\* comparables, the number the on-screen legend shows for it
C17_TableNumber ==
  ThreeCategory(variant) =>
    \A i \in 1..Len(properties) :
      properties[i].type = "comparable" =>
        /\ MarkerText(properties, i) = Numeral(ComparableRank(properties, i))
        /\ MarkerText(properties, i) =
             LabelIn(OnScreenLegend(variant, properties), i)

\* C18: after a run of updateMarkers of the three-category variant the
\* marker of every comparable shows the number that the on-screen legend
\* and the export legend show for that record
C18_MarkerMatchesLegends ==
  (last.op = "update" /\ ThreeCategory(variant)) =>
    \A k \in 1..Len(markers) :
      markers[k].property.type = "comparable" =>
        /\ markers[k].text =
             LabelIn(OnScreenLegend(variant, properties), markers[k].row)
        /\ markers[k].text =
             LabelIn(ExportLegend(properties), markers[k].row)

\* list props without its row r
WithoutRow(props, r) ==
  SubSeq(props, 1, r - 1) \o SubSeq(props, r + 1, Len(props))

\* the number the on-screen legend shows for row i
LegendNumber(props, i) == LabelIn(OnScreenLegend(variant, props), i)

\* C19: appending a comparable leaves the legend number of every comparable
\* that was there unchanged; removing the comparable numbered k takes that
\* record alone out of the list, so that the comparables before it keep
\* their numbers, those after it move down by one, and the order stays
C19_NumberingStable ==
  [][/\ (ops' = ops + 1 /\ last'.op = "add" /\ last'.type = "comparable")
        => \A i \in 1..Len(properties) :
             properties[i].type = "comparable" =>
               /\ properties'[i] = properties[i]
               /\ LegendNumber(properties', i) = LegendNumber(properties, i)
     /\ (ops' = ops + 1 /\ last'.op = "remove" /\ last'.type = "comparable")
        => \E r \in 1..Len(properties) :
             /\ properties[r].type = "comparable"
             /\ properties' = WithoutRow(properties, r)
             /\ \A i \in 1..Len(properties) :
                  (properties[i].type = "comparable" /\ i < r) =>
                    LegendNumber(properties', i) = LegendNumber(properties, i)
             /\ \A i \in 1..Len(properties) :
                  (properties[i].type = "comparable" /\ i > r) =>
                    LegendNumber(properties', i - 1) =
                      Numeral(ComparableRank(properties, i) - 1)]_vars

\* C20: a run of updateMarkers fetches no blank address, places no marker
\* for a record with a blank address, and leaves the list as it was
C20_BlankAddressSkipped ==
  [][(ops' = ops + 1 /\ last'.op = "update") =>
       /\ \A k \in 1..Len(requests') : Trim(requests'[k].address) # <<>>
       /\ \A k \in 1..Len(markers') : Trim(markers'[k].property.address) # <<>>
       /\ properties' = properties]_vars

\* a run placed a marker while a record with a blank address was listed
C20_Witness ==
  /\ last.op = "update"
  /\ map
  /\ markers # <<>>
  /\ requests # <<>>
  /\ \E i \in 1..Len(properties) :
       /\ properties[i].type # "primary"
       /\ Trim(properties[i].address) = <<>>

(* ----------------------- the earliest component ----------------------- *)

\* C29: in the earliest component compAddresses never has more than
\* MaxComparables (12) entries: after a bulk input with a non-blank line it
\* holds the lines that follow the first one, the first 12 at most, and
\* handleAddCompAddress leaves a list of 12 as it is
C29_AtMostTwelve ==
  /\ Len(compAddresses) <= MaxComparables
  /\ Len(compAddresses) = MaxComparables
       => AddCompAddress(compAddresses) = compAddresses
  /\ last.op = "bulkAddresses" /\ NumLines(text) > 0
       => /\ Len(compAddresses) = Min(NumLines(text) - 1, MaxComparables)
          /\ \A i \in 1..Len(compAddresses) :
               Visible(compAddresses[i]) = Visible(NthLine(text, i))

\* a bulk input with more than 12 lines after the first one has been cut
C29_Witness ==
  /\ last.op = "bulkAddresses"
  /\ NumLines(text) > MaxComparables + 1
  /\ Len(compAddresses) = MaxComparables

\* C25: in the earliest component, a change of primaryAddress or
\* compAddresses made when the map exists is eventually followed by a run
\* of updateMarkers
C25_ChangeIsFollowedByRun ==
  \A n \in 0..(MaxEarlyOps + 1) :
    (map /\ effectDeps[1] /\ EffectPending /\ runCount = n)
      ~> (runCount > n)

(* ------------------ the asynchronous marker update --------------------- *)

\* C24: the marker update is debounced: a change that arrives while the
\* timer of the previous change is still pending (less than the 1000 ms
\* wait after it) leaves one pending timer, so that a burst of changes
\* ends in one run of updateMarkers and not in one run per change
C24_OneRunPerBurst == Len(timers) <= 1

\* C27: loading is true whenever a run of updateMarkers (or, in the Mapbox
\* components, an export) is in progress, and false once every started run
\* and export has finished
C27_LoadingTracksWork ==
  /\ runs # {} => loading
  /\ variant \in MapboxVariants /\ capture # "idle" => loading
  /\ runs = {} /\ capture = "idle" => ~loading

\* C30: once every started run of updateMarkers has finished, the marker
\* layers on the map are exactly the markers of the markers state
C30_NoUntrackedMarker ==
  runs = {} => layers = {markers[k] : k \in 1..Len(markers)}

(* ------------------------ errors and frames ---------------------------- *)

\* C21: a run of updateMarkers leaves the property list as it was, and
\* when one of its geocoding requests failed it ends with an error message
\* on display
C21_FailureReported ==
  [][(ops' = ops + 1 /\ last'.op = "update") =>
       /\ properties' = properties
       /\ (\E k \in 1..Len(requests') : requests'[k].answer = "error")
            => error' # <<>>]_vars

\* C22: handleBulkAddressInput is one step that changes the property list
\* only: it sends no request, starts no timer and no run, and leaves the
\* map, the markers, the loading flag and the error as they were
C22_BulkInputFrame ==
  [][(ops' = ops + 1 /\ last'.op = "bulk") =>
       /\ UNCHANGED <<map, markers, loading, error>>
       /\ UNCHANGED <<requests, timers, runs, layers, runCount>>]_vars

\* a text was parsed while the map existed and an error was on display
C22_Witness ==
  /\ last.op = "bulk"
  /\ NonBlankLines(text) # <<>>
  /\ map
  /\ error # <<>>

\* the fields of a record
Fields(r) == DOMAIN r

\* C23: handlePropertyChange and handlePropertyTypeChange leave the length
\* of the list and the id of every row as they were, and change one field
\* of one row only
C23_EditFrame ==
  [][(ops' = ops + 1 /\ last'.op \in {"edit", "type"}) =>
       /\ Len(properties') = Len(properties)
       /\ \A i \in 1..Len(properties) : properties'[i].id = properties[i].id
       /\ \E r \in 1..Len(properties) :
            /\ \A i \in 1..Len(properties) :
                 i # r => properties'[i] = properties[i]
            /\ \E field \in Fields(properties[r]) :
                 \A g \in Fields(properties[r]) \ {field} :
                   properties'[r][g] = properties[r][g]]_vars

(* ---------------------- the token and the export ----------------------- *)

\* C26: once an export has finished, with or without a captured canvas,
\* the legend and title controls it put on the map are gone
C26_ControlsRemoved == capture = "idle" => controls = <<>>

====
